---- MODULE Spec2Model ----
\* A model of utils/plugins_process_pool.py: PluginsProcessPool, the pool that
\* provisions worker processes under a global and a per-hostname cap, routes
\* aggressive commands to hostname queues and normal ones to the shared queue,
\* and drains the results with a sentinel protocol.
EXTENDS Naturals, Sequences, FiniteSets, TLC

\* ---------------------------------------------------------------- bounds
MaxTasks == 2
MaxHosts == 2
MaxGlobalCap == 1
MaxHostCap == 1
MaxDrains == 2

\* ------------------------------------------------------ program constants
DEFAULT_MAX_PROCESSES_NB == 12
DEFAULT_PROCESSES_PER_HOSTNAME_NB == 3

\* Hostnames are 1..MaxHosts; a hostname queue is named by the hostname whose
\* first submit created it.
Hosts == 1 .. MaxHosts
GlobalCaps == (0 .. MaxGlobalCap) \cup {DEFAULT_MAX_PROCESSES_NB}
HostCaps == (0 .. MaxHostCap) \cup {DEFAULT_PROCESSES_PER_HOSTNAME_NB}

\* The commands the plugins provider exposes, and the aggressive ones among them.
get_commands == {"aggressive_cmd", "normal_cmd"}
get_aggressive_commands == {"aggressive_cmd"}

\* The None sentinel / Completion Signal; every real task or result has id >= 1.
None == [id |-> 0, host |-> 0, cmd |-> "None"]

VARIABLES
    max_processes_nb,
    max_processes_per_hostname_nb,
    hostname_queues_dict,
    processes_dict,
    hostname_queues,
    task_queue,
    result_queue,
    queued_tasks_nb,
    workers,
    pc,
    received_task_results,
    expected_task_results,
    yielded,
    drains,
    raised,
    taken,
    submitted

vars == << max_processes_nb, max_processes_per_hostname_nb, hostname_queues_dict,
           processes_dict, hostname_queues, task_queue, result_queue,
           queued_tasks_nb, workers, pc, received_task_results,
           expected_task_results, yielded, drains, raised, taken, submitted >>

pool_vars == << hostname_queues_dict, processes_dict, hostname_queues, task_queue,
                queued_tasks_nb >>
drain_vars == << pc, received_task_results, expected_task_results, yielded, drains >>
config_vars == << max_processes_nb, max_processes_per_hostname_nb >>

\* ---------------------------------------------------------------- helpers
Range(f) == {f[x] : x \in DOMAIN f}

RECURSIVE SumLen(_, _)
SumLen(pd, hs) ==
    IF hs = {} THEN 0
    ELSE LET h == CHOOSE x \in hs : TRUE
         IN  Len(pd[h]) + SumLen(pd, hs \ {h})

\* _get_current_processes_nb: the sum of the lengths of the worker lists.
_get_current_processes_nb == SumLen(processes_dict, DOMAIN processes_dict)

Sentinels(n) == [i \in 1 .. n |-> None]

\* The state after __init__.
Init ==
    /\ max_processes_nb \in GlobalCaps
    /\ max_processes_per_hostname_nb \in HostCaps
    /\ hostname_queues_dict = << >>
    /\ processes_dict = << >>
    /\ hostname_queues = [q \in Hosts |-> << >>]
    /\ task_queue = << >>
    /\ result_queue = << >>
    /\ queued_tasks_nb = 0
    /\ workers = << >>
    /\ pc = "idle"
    /\ received_task_results = 0
    /\ expected_task_results = 0
    /\ yielded = << >>
    /\ drains = 0
    /\ raised = "none"
    /\ taken = [t \in 1 .. MaxTasks |-> 0]
    /\ submitted = << >>

\* ------------------------------------------------------------ provisioning
\* A WorkerProcess right after start(): bound to the shared queue and to the
\* hostname queue hq, idle, no sentinel seen.
NewWorker(hq) ==
    [hq |-> hq, st |-> "idle", task |-> None, shared_done |-> FALSE, host_done |-> FALSE]

\* The global check written with <= instead of <.
GlobalCapAllows_OffByOne == _get_current_processes_nb <= max_processes_nb

\* self._get_current_processes_nb() < self._max_processes_nb
GlobalCapAllows == _get_current_processes_nb < max_processes_nb

\* The per-hostname check written with <= instead of <.
HostCapAllows_OffByOne(hostname) ==
    Len(processes_dict[hostname]) <= max_processes_per_hostname_nb

\* len(self._processes_dict[hostname]) < self._max_processes_per_hostname_nb
HostCapAllows(hostname) ==
    Len(processes_dict[hostname]) < max_processes_per_hostname_nb

\* The seen-before test without its second conjunct (the global cap).
KnownHostMayGrow_NoGlobalTest(hostname) == HostCapAllows(hostname)

\* The seen-before branch's test: the per-hostname cap and the global cap.
KnownHostMayGrow(hostname) == HostCapAllows(hostname) /\ GlobalCapAllows

\* The reuse branch without its second statement: no entry is made.
ReusedQueueProcesses_NoEntry(hostname) == << >>

\* self._processes_dict[hostname] = [] of the reuse branch: the entry made
\* for a hostname that is given an existing queue.
ReusedQueueProcesses(hostname) == (hostname :> << >>)

\* Whether _check_and_create_process(hostname) reaches a process.start().
StartsProcess(hostname) ==
    IF hostname \notin DOMAIN hostname_queues_dict
    THEN GlobalCapAllows
    ELSE /\ hostname \in DOMAIN processes_dict
         /\ KnownHostMayGrow(hostname)

\* _check_and_create_process(hostname): the registries and the workers after
\* the call, and the exception it raised, if any. start_ok is whether
\* process.start() succeeds; reused is the queue random.choice returns.
_check_and_create_process(hostname, start_ok, reused) ==
    LET same(err) == [hqd |-> hostname_queues_dict, pd |-> processes_dict,
                      ws |-> workers, raised |-> err]
    IN
    IF hostname \notin DOMAIN hostname_queues_dict
    THEN IF GlobalCapAllows
         THEN IF start_ok
              THEN [hqd |-> hostname_queues_dict @@ (hostname :> hostname),
                    pd |-> processes_dict @@ (hostname :> << Len(workers) + 1 >>),
                    ws |-> Append(workers, NewWorker(hostname)),
                    raised |-> "none"]
              ELSE \* the queue is registered before start() raises
                   [hqd |-> hostname_queues_dict @@ (hostname :> hostname),
                    pd |-> processes_dict,
                    ws |-> workers,
                    raised |-> "ProvisioningFailure"]
         ELSE IF Range(hostname_queues_dict) = {}
              THEN same("IndexError")  \* random.choice of an empty list
              ELSE [hqd |-> hostname_queues_dict @@ (hostname :> reused),
                    pd |-> processes_dict @@ ReusedQueueProcesses(hostname),
                    ws |-> workers,
                    raised |-> "none"]
    ELSE IF hostname \notin DOMAIN processes_dict
         THEN same("KeyError")  \* self._processes_dict[hostname]
         ELSE IF KnownHostMayGrow(hostname)
              THEN IF start_ok
                   THEN [hqd |-> hostname_queues_dict,
                         pd |-> [processes_dict EXCEPT
                                    ![hostname] = Append(@, Len(workers) + 1)],
                         ws |-> Append(workers,
                                       NewWorker(hostname_queues_dict[hostname])),
                         raised |-> "none"]
                   ELSE same("ProvisioningFailure")
              ELSE same("none")

\* ---------------------------------------------------------------- dispatch
\* The branch of queue_plugin_task that puts on the hostname queue.
PutsOnHostnameQueue(plugin_command) == plugin_command \in get_aggressive_commands

\* The shared-queue put written outside the else: every task goes there too.
PutsOnTaskQueue_NoElse(plugin_command) == TRUE

\* The else branch: the shared queue.
PutsOnTaskQueue(plugin_command) == plugin_command \notin get_aggressive_commands

\* queue_plugin_task(server_connectivity_info, plugin_command, ...), whole call.
Submit(hostname, plugin_command, start_ok, reused) ==
    LET r == _check_and_create_process(hostname, start_ok, reused)
        task == [id |-> queued_tasks_nb + 1, host |-> hostname, cmd |-> plugin_command]
    IN
    /\ queued_tasks_nb < MaxTasks
    /\ pc = "idle"  \* "New tasks cannot be queued once this [get_results] is called"
    /\ hostname_queues_dict' = r.hqd
    /\ processes_dict' = r.pd
    /\ workers' = r.ws
    /\ raised' = r.raised
    /\ IF r.raised = "none"
       THEN /\ queued_tasks_nb' = queued_tasks_nb + 1
            /\ submitted' = Append(submitted, task)
            /\ hostname_queues' =
                  IF PutsOnHostnameQueue(plugin_command)
                  THEN [hostname_queues EXCEPT ![r.hqd[hostname]] = Append(@, task)]
                  ELSE hostname_queues
            /\ task_queue' =
                  IF PutsOnTaskQueue(plugin_command)
                  THEN Append(task_queue, task)
                  ELSE task_queue
       ELSE UNCHANGED << queued_tasks_nb, hostname_queues, task_queue, submitted >>
    /\ UNCHANGED << result_queue, taken >>
    /\ UNCHANGED drain_vars
    /\ UNCHANGED config_vars

\* What random.choice(self._hostname_queues_dict.values()) may return; when
\* the list is empty it raises and the placeholder is never used.
RandomChoice(placeholder) ==
    IF Range(hostname_queues_dict) = {} THEN {placeholder}
    ELSE Range(hostname_queues_dict)

\* A submit whose process.start(), if any, succeeds.
QueuePluginTask ==
    \E hostname \in Hosts, plugin_command \in get_commands :
        \E reused \in RandomChoice(hostname) :
            Submit(hostname, plugin_command, TRUE, reused)

\* A submit whose process.start() raises.
QueuePluginTaskStartFails ==
    \E hostname \in Hosts, plugin_command \in get_commands :
        /\ StartsProcess(hostname)
        /\ Submit(hostname, plugin_command, FALSE, hostname)

\* ----------------------------------------------------------------- workers
\* What a worker becomes on a sentinel from one of its two queues.
AfterSentinel(w, from_shared) ==
    LET w1 == IF from_shared THEN [w EXCEPT !.shared_done = TRUE]
                             ELSE [w EXCEPT !.host_done = TRUE]
    IN  IF w1.shared_done /\ w1.host_done THEN [w1 EXCEPT !.st = "done"] ELSE w1

\* Worker i takes the head of the shared queue.
WorkerTakeShared(i) ==
    /\ i \in DOMAIN workers
    /\ workers[i].st = "idle"
    /\ ~workers[i].shared_done
    /\ task_queue # << >>
    /\ LET item == Head(task_queue)
           w1 == AfterSentinel(workers[i], TRUE)
       IN  /\ task_queue' = Tail(task_queue)
           /\ IF item = None
              THEN /\ workers' = [workers EXCEPT ![i] = w1]
                   /\ result_queue' = IF w1.st = "done" THEN Append(result_queue, None)
                                      ELSE result_queue
                   /\ UNCHANGED taken
              ELSE /\ workers' = [workers EXCEPT ![i] = [@ EXCEPT !.st = "busy", !.task = item]]
                   /\ taken' = [taken EXCEPT ![item.id] = @ + 1]
                   /\ UNCHANGED result_queue
    /\ UNCHANGED << hostname_queues_dict, processes_dict, hostname_queues,
                    queued_tasks_nb, raised, submitted >>
    /\ UNCHANGED drain_vars
    /\ UNCHANGED config_vars

\* Worker i takes the head of the hostname queue it is bound to.
WorkerTakeHostname(i) ==
    /\ i \in DOMAIN workers
    /\ workers[i].st = "idle"
    /\ ~workers[i].host_done
    /\ hostname_queues[workers[i].hq] # << >>
    /\ LET q == workers[i].hq
           item == Head(hostname_queues[q])
           w1 == AfterSentinel(workers[i], FALSE)
       IN  /\ hostname_queues' = [hostname_queues EXCEPT ![q] = Tail(@)]
           /\ IF item = None
              THEN /\ workers' = [workers EXCEPT ![i] = w1]
                   /\ result_queue' = IF w1.st = "done" THEN Append(result_queue, None)
                                      ELSE result_queue
                   /\ UNCHANGED taken
              ELSE /\ workers' = [workers EXCEPT ![i] = [@ EXCEPT !.st = "busy", !.task = item]]
                   /\ taken' = [taken EXCEPT ![item.id] = @ + 1]
                   /\ UNCHANGED result_queue
    /\ UNCHANGED << hostname_queues_dict, processes_dict, task_queue,
                    queued_tasks_nb, raised, submitted >>
    /\ UNCHANGED drain_vars
    /\ UNCHANGED config_vars

\* Worker i finishes the command it is executing and pushes the Result.
WorkerFinish(i) ==
    /\ i \in DOMAIN workers
    /\ workers[i].st = "busy"
    /\ result_queue' = Append(result_queue, workers[i].task)
    /\ workers' = [workers EXCEPT ![i] = [@ EXCEPT !.st = "idle", !.task = None]]
    /\ UNCHANGED << raised, taken, submitted >>
    /\ UNCHANGED pool_vars
    /\ UNCHANGED drain_vars
    /\ UNCHANGED config_vars

\* Worker i terminates abnormally: it takes no further item, pushes no Result
\* for the command it was executing and never pushes its Completion Signal.
WorkerCrashes(i) ==
    /\ i \in DOMAIN workers
    /\ workers[i].st \in {"idle", "busy"}
    /\ workers' = [workers EXCEPT ![i] = [@ EXCEPT !.st = "crashed"]]
    /\ UNCHANGED << result_queue, raised, taken, submitted >>
    /\ UNCHANGED pool_vars
    /\ UNCHANGED drain_vars
    /\ UNCHANGED config_vars

WorkerStep(i) == WorkerTakeShared(i) \/ WorkerTakeHostname(i) \/ WorkerFinish(i)

WorkerIds == 1 .. MaxTasks

\* ------------------------------------------------------------------- drain
\* The expected count without the workers' completion signals.
ExpectedTaskResults_NoSignals == queued_tasks_nb

\* expected_task_results = self._queued_tasks_nb + self._get_current_processes_nb()
ExpectedTaskResults == queued_tasks_nb + _get_current_processes_nb

\* One sentinel per hostname that maps to q, whatever the number of its
\* processes.
HostnameSentinels_PerHostname(q, hs) ==
    Cardinality({h \in hs : hostname_queues_dict[h] = q})

\* The sentinels get_results puts on hostname queue q: for each hostname that
\* maps to q, one per process in self._processes_dict[hostname].
RECURSIVE HostnameSentinels(_, _)
HostnameSentinels(q, hs) ==
    IF hs = {} THEN 0
    ELSE LET h == CHOOSE x \in hs : TRUE
         IN  (IF hostname_queues_dict[h] = q THEN Len(processes_dict[h]) ELSE 0)
             + HostnameSentinels(q, hs \ {h})

\* The loop without the "result is None" test: everything popped is yielded.
IsYielded_NoNoneTest(result) == TRUE

\* Whether a record popped from the result queue is yielded to the caller.
IsYielded(result) == result # None

\* get_results up to its loop: the sentinels are put and the expected count set.
GetResultsStart ==
    /\ pc \in {"idle", "done"}
    /\ drains < MaxDrains
    /\ DOMAIN hostname_queues_dict \subseteq DOMAIN processes_dict
    /\ task_queue' = task_queue \o Sentinels(_get_current_processes_nb)
    /\ hostname_queues' =
          [q \in Hosts |->
              hostname_queues[q] \o
                  Sentinels(HostnameSentinels(q, DOMAIN hostname_queues_dict))]
    /\ received_task_results' = 0
    /\ expected_task_results' = ExpectedTaskResults
    /\ yielded' = << >>
    /\ drains' = drains + 1
    /\ pc' = "collect"
    /\ UNCHANGED << hostname_queues_dict, processes_dict, result_queue,
                    queued_tasks_nb, workers, raised, taken, submitted >>
    /\ UNCHANGED config_vars

\* get_results when a hostname has a queue but no entry in _processes_dict (a
\* start() failed for it): self._processes_dict[hostname] raises KeyError after
\* the sentinels for the hostnames iterated before it were put.
GetResultsRaises ==
    /\ pc \in {"idle", "done"}
    /\ drains < MaxDrains
    /\ \E bad \in DOMAIN hostname_queues_dict \ DOMAIN processes_dict :
       \E before \in SUBSET (DOMAIN hostname_queues_dict \cap DOMAIN processes_dict) :
          /\ task_queue' = task_queue \o Sentinels(_get_current_processes_nb)
          /\ hostname_queues' =
                [q \in Hosts |->
                    hostname_queues[q] \o Sentinels(HostnameSentinels(q, before))]
    /\ drains' = drains + 1
    /\ pc' = "raised"
    /\ UNCHANGED << hostname_queues_dict, processes_dict, result_queue,
                    queued_tasks_nb, workers, raised, taken, submitted,
                    received_task_results, expected_task_results, yielded >>
    /\ UNCHANGED config_vars

\* One round of the while loop: result_queue.get(), task_done(), count, yield.
GetResultsRecv ==
    /\ pc = "collect"
    /\ received_task_results # expected_task_results
    /\ result_queue # << >>
    /\ result_queue' = Tail(result_queue)
    /\ received_task_results' = received_task_results + 1
    /\ yielded' = IF IsYielded(Head(result_queue))
                  THEN Append(yielded, Head(result_queue))
                  ELSE yielded
    /\ UNCHANGED << pc, expected_task_results, drains, workers, raised, taken, submitted >>
    /\ UNCHANGED pool_vars
    /\ UNCHANGED config_vars

\* Every item put on every queue was acknowledged (none is left in a queue,
\* none is held by a worker that has not reported it) and every process has
\* ended.
JoinsReturn ==
    /\ task_queue = << >>
    /\ result_queue = << >>
    /\ \A h \in DOMAIN hostname_queues_dict :
          hostname_queues[hostname_queues_dict[h]] = << >>
    /\ \A i \in DOMAIN workers : workers[i].task = None
    /\ \A h \in DOMAIN processes_dict :
          \A k \in 1 .. Len(processes_dict[h]) :
              workers[processes_dict[h][k]].st \notin {"idle", "busy"}

\* The loop has ended; the queue joins and the process joins return.
GetResultsJoin ==
    /\ pc = "collect"
    /\ received_task_results = expected_task_results
    /\ JoinsReturn
    /\ pc' = "done"
    /\ UNCHANGED << received_task_results, expected_task_results, yielded, drains,
                    result_queue, workers, raised, taken, submitted >>
    /\ UNCHANGED pool_vars
    /\ UNCHANGED config_vars

\* ---------------------------------------------------------------- shutdown
\* Only the first process of each list is terminated.
RegisteredProcesses_FirstOnly ==
    {processes_dict[h][1] : h \in {x \in DOMAIN processes_dict : processes_dict[x] # << >>}}

\* The processes emergency_shutdown walks: every process of every list of
\* self._processes_dict.
RegisteredProcesses == UNION {Range(processes_dict[h]) : h \in DOMAIN processes_dict}

\* emergency_shutdown(): process.terminate() on every registered process. A
\* process that has already ended is not affected; a call that finds no
\* running process changes nothing (a stuttering step).
EmergencyShutdown ==
    /\ workers' = [i \in DOMAIN workers |->
                     IF i \in RegisteredProcesses /\ workers[i].st \in {"idle", "busy"}
                     THEN [workers[i] EXCEPT !.st = "terminated"]
                     ELSE workers[i]]
    /\ workers' # workers
    /\ UNCHANGED << result_queue, raised, taken, submitted >>
    /\ UNCHANGED pool_vars
    /\ UNCHANGED drain_vars
    /\ UNCHANGED config_vars

\* ----------------------------------------------------------- specifications
Workers == \E i \in WorkerIds : WorkerStep(i)

Next ==
    \/ QueuePluginTask
    \/ Workers
    \/ GetResultsStart
    \/ GetResultsRecv
    \/ GetResultsJoin

Spec == Init /\ [][Next]_vars

\* Worker processes run whenever they can, and the caller that started a drain
\* keeps iterating it.
Fairness ==
    /\ \A i \in WorkerIds : WF_vars(WorkerStep(i))
    /\ WF_vars(GetResultsRecv)
    /\ WF_vars(GetResultsJoin)

FairSpec == Init /\ [][Next]_vars /\ Fairness

\* The pool when process.start() may fail.
NextFail ==
    \/ Next
    \/ QueuePluginTaskStartFails
    \/ GetResultsRaises

SpecFail == Init /\ [][NextFail]_vars

\* The pool when a worker may terminate abnormally or the caller may call
\* emergency_shutdown.
Crashes == \E i \in WorkerIds : WorkerCrashes(i)

NextAbnormal ==
    \/ Next
    \/ Crashes
    \/ EmergencyShutdown

SpecAbnormal == Init /\ [][NextAbnormal]_vars

\* ------------------------------------------------------------------ claims
\* The workers that are executing an aggressive command against hostname h.
AggressiveRunning(h) ==
    {i \in DOMAIN workers :
        /\ workers[i].st = "busy"
        /\ workers[i].task.cmd \in get_aggressive_commands
        /\ workers[i].task.host = h}

\* The aggressive tasks for hostname h that wait in the queue h maps to.
AggressiveWaiting(h) ==
    IF h \notin DOMAIN hostname_queues_dict THEN {}
    ELSE LET q == hostname_queues[hostname_queues_dict[h]]
         IN  {k \in 1 .. Len(q) : q[k] # None /\ q[k].host = h}

\* How many times task t occurs among the yielded results.
YieldedCount(t) == Cardinality({k \in 1 .. Len(yielded) : yielded[k].id = t})

\* C1: N submits followed by one drain: the drain never yields a Completion
\* Signal (None), and once it has finished it has yielded exactly N results,
\* one for each submitted task.
C1_DrainYieldsEachTaskOnce ==
    /\ \A k \in 1 .. Len(yielded) : yielded[k] # None
    /\ (pc = "done" /\ drains = 1) =>
          /\ Len(yielded) = queued_tasks_nb
          /\ \A t \in 1 .. queued_tasks_nb : YieldedCount(t) = 1
          /\ \A k \in 1 .. Len(yielded) : yielded[k] = submitted[yielded[k].id]

\* A first drain that finished after two tasks for two hostnames, one of them
\* on a reused queue.
C1_Witness ==
    /\ pc = "done"
    /\ drains = 1
    /\ queued_tasks_nb >= 2
    /\ Len(yielded) >= 2
    /\ \E h \in DOMAIN processes_dict : processes_dict[h] = << >>

\* C2: for every cap configuration, at most one worker at a time executes an
\* aggressive command against a given hostname.
C2_AggressiveNeverConcurrent ==
    \A h \in Hosts : Cardinality(AggressiveRunning(h)) <= 1

\* C3: with a per-hostname cap of 1 and a global cap of at least 1, at most one
\* worker at a time executes an aggressive command against a given hostname.
C3_AggressiveSerializedWhenHostCapOne ==
    (max_processes_per_hostname_nb = 1 /\ max_processes_nb >= 1) =>
        \A h \in Hosts : Cardinality(AggressiveRunning(h)) <= 1

\* Per-hostname cap 1: an aggressive command against h is executing while a
\* second aggressive task for h waits in h's queue.
C3_Witness ==
    /\ max_processes_per_hostname_nb = 1
    /\ max_processes_nb >= 1
    /\ \E h \in Hosts : AggressiveRunning(h) # {} /\ AggressiveWaiting(h) # {}

\* C4: the live worker count never exceeds max_processes_nb.
C4_GlobalCapRespected == _get_current_processes_nb <= max_processes_nb

\* The global cap (at least 1) is reached and a later submit was accepted
\* without creating a worker.
C4_Witness ==
    /\ max_processes_nb >= 1
    /\ _get_current_processes_nb = max_processes_nb
    /\ queued_tasks_nb > _get_current_processes_nb

\* C5: for every per-hostname cap, cap 0 included, no hostname has more
\* registered workers than max_processes_per_hostname_nb.
C5_PerHostCapRespected ==
    \A h \in DOMAIN processes_dict :
        Len(processes_dict[h]) <= max_processes_per_hostname_nb

\* C6: every queued task is taken by a worker exactly once: never more than
\* once, and under fair scheduling eventually once.
C6_EachTaskTakenExactlyOnce ==
    /\ [](\A t \in 1 .. MaxTasks : taken[t] <= 1)
    /\ \A t \in 1 .. MaxTasks : (queued_tasks_nb >= t) ~> (taken[t] = 1)

\* Both a shared-queue task and a hostname-queue task have been taken once.
C6_Witness ==
    /\ \E t \in 1 .. queued_tasks_nb :
          taken[t] = 1 /\ submitted[t].cmd \in get_aggressive_commands
    /\ \E t \in 1 .. queued_tasks_nb :
          taken[t] = 1 /\ submitted[t].cmd \notin get_aggressive_commands

\* The state a finished drain is in: the expected count was received, the
\* queue joins and the process joins have returned.
DrainCompleted ==
    /\ pc = "done"
    /\ expected_task_results = queued_tasks_nb + _get_current_processes_nb
    /\ received_task_results = expected_task_results
    /\ JoinsReturn

\* C7: under fair scheduling a started drain finishes: it receives
\* queued_tasks_nb + N items, every queue is empty and every worker has ended.
C7_DrainTerminates == (pc = "collect" /\ drains = 1) ~> DrainCompleted

\* A first drain over at least two workers and two tasks has finished.
C7_Witness ==
    /\ drains = 1
    /\ DrainCompleted
    /\ _get_current_processes_nb >= 2
    /\ queued_tasks_nb >= 2

\* C8: a second invocation of get_results on the same pool never finishes.
C8_SecondDrainNeverCompletes == ~(drains >= 2 /\ pc = "done")

\* A step that is a submit for the never-seen hostname h at the global cap.
SubmitAtCapFor(h) ==
    /\ h \notin DOMAIN hostname_queues_dict
    /\ ~GlobalCapAllows
    /\ \E c \in get_commands, q \in RandomChoice(h) :
          Submit(h, c, TRUE, q)

\* C9: a submit for a never-seen hostname at the global cap maps the hostname
\* to a queue already in the registry and creates no worker, and every task
\* submitted for such a hostname is drained.
C9_ReuseAtGlobalCap ==
    /\ [][\A h \in Hosts :
            SubmitAtCapFor(h) =>
                /\ h \in DOMAIN hostname_queues_dict'
                /\ hostname_queues_dict'[h] \in Range(hostname_queues_dict)
                /\ workers' = workers]_vars
    /\ \A t \in 1 .. MaxTasks :
          (/\ queued_tasks_nb >= t
           /\ processes_dict[submitted[t].host] = << >>
           /\ pc = "collect"
           /\ drains = 1) ~> (YieldedCount(t) = 1)

\* C10: queue_plugin_task raises only when process.start() fails.
C10_SubmitRaisesOnlyOnStartFailure == raised \in {"none", "ProvisioningFailure"}

Min(a, b) == IF a <= b THEN a ELSE b

\* Every task submitted so far is a normal one, each for a hostname of its own.
OneNormalTaskPerHost ==
    /\ \A t \in 1 .. Len(submitted) : submitted[t].cmd \notin get_aggressive_commands
    /\ \A t, u \in 1 .. Len(submitted) : submitted[t].host = submitted[u].host => t = u

\* A step that is a submit of a normal task for hostname h.
SubmitNormalFor(h) ==
    \E c \in get_commands \ get_aggressive_commands, q \in RandomChoice(h) :
        Submit(h, c, TRUE, q)

\* C11: one normal task submitted for each of k distinct hostnames under global
\* cap G: every such submit is accepted, exactly min(k, G) workers are created,
\* and the drain yields all k results.
C11_OneTaskPerHostUnderCap ==
    /\ [][\A h \in Hosts :
            (/\ OneNormalTaskPerHost
             /\ h \notin DOMAIN hostname_queues_dict
             /\ SubmitNormalFor(h)) =>
                /\ queued_tasks_nb' = queued_tasks_nb + 1
                /\ Len(workers') = Min(queued_tasks_nb', max_processes_nb)]_vars
    /\ (OneNormalTaskPerHost /\ pc = "collect" /\ drains = 1) ~>
          (pc = "done" /\ Len(yielded) = queued_tasks_nb)

\* The same for every global cap of at least 1 (not a claim: the extent to
\* which C11 holds).
ScenarioA_PositiveCap ==
    /\ [][\A h \in Hosts :
            (/\ max_processes_nb >= 1
             /\ OneNormalTaskPerHost
             /\ h \notin DOMAIN hostname_queues_dict
             /\ SubmitNormalFor(h)) =>
                /\ queued_tasks_nb' = queued_tasks_nb + 1
                /\ Len(workers') = Min(queued_tasks_nb', max_processes_nb)]_vars
    /\ (OneNormalTaskPerHost /\ pc = "collect" /\ drains = 1) ~>
          (pc = "done" /\ Len(yielded) = queued_tasks_nb)

\* Tasks t and u are aggressive and were routed to the same hostname queue.
SameQueueAggressive(t, u) ==
    /\ submitted[t].cmd \in get_aggressive_commands
    /\ submitted[u].cmd \in get_aggressive_commands
    /\ hostname_queues_dict[submitted[t].host] = hostname_queues_dict[submitted[u].host]

\* C12: with a per-hostname cap of 1, aggressive tasks of one hostname queue
\* are taken in enqueue order and their results are yielded in submission
\* order.
C12_AggressiveOrderKept ==
    max_processes_per_hostname_nb = 1 =>
        \A t, u \in 1 .. Len(submitted) :
            (t < u /\ SameQueueAggressive(t, u)) =>
                /\ taken[u] >= 1 => taken[t] >= 1
                /\ \A j \in 1 .. Len(yielded) :
                      yielded[j].id = u => \E i \in 1 .. (j - 1) : yielded[i].id = t

\* Per-hostname cap 1: a finished drain has yielded two aggressive tasks that
\* were submitted against the same hostname.
C12_Witness ==
    /\ max_processes_per_hostname_nb = 1
    /\ pc = "done"
    /\ drains = 1
    /\ \E i, j \in 1 .. Len(yielded) :
          /\ i < j
          /\ yielded[i].cmd \in get_aggressive_commands
          /\ yielded[j].cmd \in get_aggressive_commands
          /\ yielded[i].host = yielded[j].host

\* Worker i ended without pushing its Completion Signal.
EndedAbnormally(i) == workers[i].st \in {"crashed", "terminated"}

\* C13: once a worker has terminated abnormally the drain never finishes: the
\* received count stays below the expected count.
C13_DrainBlocksAfterAbnormalEnd ==
    (\E i \in DOMAIN workers : EndedAbnormally(i)) =>
        /\ pc # "done"
        /\ pc = "collect" => received_task_results < expected_task_results

\* A drain that has received everything the surviving workers pushed and now
\* waits on the empty result queue for a crashed worker's signal.
C13_Witness ==
    /\ pc = "collect"
    /\ \E i \in DOMAIN workers : workers[i].st = "crashed"
    /\ \A i \in DOMAIN workers : workers[i].st \in {"crashed", "done"}
    /\ Len(workers) >= 2
    /\ result_queue = << >>
    /\ received_task_results >= 1
    /\ received_task_results < expected_task_results

\* A step in which some worker is terminated by emergency_shutdown.
TerminatesSomeWorker ==
    \E i \in DOMAIN workers :
        workers[i].st # "terminated" /\ workers'[i].st = "terminated"

\* C14: emergency_shutdown leaves no worker running, whatever it was
\* executing, and touches nothing else: no sentinel is put on a queue, the
\* result queue is not read, no drain or join step is taken.
C14_EmergencyShutdownTerminatesAll ==
    [][TerminatesSomeWorker =>
          /\ \A i \in DOMAIN workers' : workers'[i].st \notin {"idle", "busy"}
          /\ task_queue' = task_queue
          /\ hostname_queues' = hostname_queues
          /\ result_queue' = result_queue
          /\ UNCHANGED drain_vars
          /\ UNCHANGED << hostname_queues_dict, processes_dict, queued_tasks_nb >>]_vars

\* After an emergency shutdown: two workers of one hostname are terminated,
\* one of them in the middle of a command, and items are still queued.
C14_Witness ==
    /\ \E h \in DOMAIN processes_dict :
          /\ Len(processes_dict[h]) >= 2
          /\ \A k \in 1 .. Len(processes_dict[h]) :
                workers[processes_dict[h][k]].st = "terminated"
    /\ \E i \in DOMAIN workers : workers[i].st = "terminated" /\ workers[i].task # None
    /\ \A i \in DOMAIN workers : workers[i].st \notin {"idle", "busy"}
    /\ task_queue # << >>

\* C15: a successful submit increments the queued-task counter by one and
\* appends the one new task to exactly one queue: the queue the hostname
\* registry maps its host to when the command is aggressive, the shared queue
\* otherwise; every other queue keeps its contents.
C15_SubmitEnqueuesOnce ==
    [][Len(submitted') = Len(submitted) + 1 =>
          LET task == submitted'[Len(submitted')]
              q == hostname_queues_dict'[task.host]
          IN
          /\ queued_tasks_nb' = queued_tasks_nb + 1
          /\ result_queue' = result_queue
          /\ IF task.cmd \in get_aggressive_commands
             THEN /\ hostname_queues'[q] = Append(hostname_queues[q], task)
                  /\ \A o \in DOMAIN hostname_queues \ {q} :
                        hostname_queues'[o] = hostname_queues[o]
                  /\ task_queue' = task_queue
             ELSE /\ task_queue' = Append(task_queue, task)
                  /\ hostname_queues' = hostname_queues]_vars

\* An aggressive task was put on a reused hostname queue and a normal task on
\* the shared queue; both are still queued.
C15_Witness ==
    /\ Len(submitted) = 2
    /\ \E t, u \in 1 .. 2 :
          /\ submitted[t].cmd \in get_aggressive_commands
          /\ hostname_queues_dict[submitted[t].host] # submitted[t].host
          /\ hostname_queues[hostname_queues_dict[submitted[t].host]] = << submitted[t] >>
          /\ submitted[u].cmd \notin get_aggressive_commands
          /\ task_queue = << submitted[u] >>

\* The workers still running.
LiveWorkers == {i \in DOMAIN workers : workers[i].st \in {"idle", "busy"}}

\* The workers bound to hostname queue q.
BoundTo(q) == {i \in DOMAIN workers : workers[i].hq = q}

\* The number of sentinels in queue s.
RECURSIVE NoneCount(_)
NoneCount(s) ==
    IF s = << >> THEN 0
    ELSE (IF Head(s) = None THEN 1 ELSE 0) + NoneCount(Tail(s))

\* C16: the start of the drain appends to the shared queue one sentinel per
\* live worker and to each hostname queue q one sentinel per worker bound to
\* q; from then on, on each queue, the sentinels still queued plus the workers
\* that took theirs from it number the workers watching it, and when the
\* drain has finished each worker has taken one from each of its two queues
\* and none is left.
C16_OneSentinelPerWorkerPerQueue ==
    /\ [][pc = "idle" /\ pc' = "collect" =>
             /\ task_queue' = task_queue \o Sentinels(Cardinality(LiveWorkers))
             /\ \A q \in Hosts :
                   hostname_queues'[q] =
                       hostname_queues[q] \o Sentinels(Cardinality(BoundTo(q)))]_vars
    /\ [](drains = 1 =>
             /\ NoneCount(task_queue)
                  + Cardinality({i \in DOMAIN workers : workers[i].shared_done})
                = Len(workers)
             /\ \A q \in Hosts :
                   NoneCount(hostname_queues[q])
                     + Cardinality({i \in BoundTo(q) : workers[i].host_done})
                   = Cardinality(BoundTo(q))
             /\ pc = "done" =>
                   /\ NoneCount(task_queue) = 0
                   /\ \A q \in Hosts : NoneCount(hostname_queues[q]) = 0
                   /\ \A i \in DOMAIN workers :
                         workers[i].shared_done /\ workers[i].host_done)

\* A finished drain of a pool in which two hostnames map to one queue served
\* by a single worker.
C16_Witness ==
    /\ drains = 1
    /\ pc = "done"
    /\ Len(workers) >= 1
    /\ \E h, g \in DOMAIN hostname_queues_dict :
          /\ h # g
          /\ hostname_queues_dict[h] = hostname_queues_dict[g]
          /\ Cardinality(BoundTo(hostname_queues_dict[h])) = 1

\* The hostname of the latest accepted submit, the hostname the provisioner
\* was last invoked for.
LastHostname == submitted[Len(submitted)].host

\* Whether invoking _check_and_create_process(h) now would change a registry.
SecondCallChanges(h) ==
    \E q \in RandomChoice(h) :
        LET r == _check_and_create_process(h, TRUE, q)
        IN  r.hqd # hostname_queues_dict \/ r.pd # processes_dict

\* C17 as stated: right after the provisioner ran for a hostname, running it
\* again for the same hostname leaves both registries as they are.
C17_ProvisioningIdempotent ==
    submitted # << >> => ~SecondCallChanges(LastHostname)

\* C17 as amended: right after the provisioner ran for a hostname, running it
\* again for the same hostname leaves the hostname registry as it is; it
\* leaves the worker registry as it is when the hostname has
\* max_processes_per_hostname_nb workers or the global cap is reached, and
\* appends one new worker to the hostname's entry otherwise.
C17_SecondCallGrowsUnderCaps ==
    submitted # << >> =>
        \A q \in RandomChoice(LastHostname) :
            LET h == LastHostname
                r == _check_and_create_process(h, TRUE, q)
                below == /\ Len(processes_dict[h]) < max_processes_per_hostname_nb
                         /\ SumLen(processes_dict, DOMAIN processes_dict) < max_processes_nb
            IN  /\ r.hqd = hostname_queues_dict
                /\ r.raised = "none"
                /\ IF below
                   THEN /\ r.pd = [processes_dict EXCEPT ![h] = Append(@, Len(workers) + 1)]
                        /\ Len(r.ws) = Len(workers) + 1
                   ELSE r.pd = processes_dict /\ r.ws = workers

\* The provisioner ran twice for one hostname and created a worker each time,
\* and a third run would create one more.
C17_Witness ==
    /\ Len(submitted) = 2
    /\ submitted[1].host = submitted[2].host
    /\ Len(processes_dict[LastHostname]) = 2
    /\ SecondCallChanges(LastHostname)

\* Whether hostname h was given a queue of its own, together with a worker
\* dedicated to it, or was mapped to the queue of another hostname.
OwnsQueue(h) == hostname_queues_dict[h] = h

\* C18 as stated: the worker registry has an entry only for a hostname for
\* which a dedicated worker was created; a hostname that reuses a queue has
\* no entry.
C18_EntryOnlyForDedicatedWorker ==
    /\ \A h \in DOMAIN processes_dict : processes_dict[h] # << >>
    /\ \A h \in DOMAIN hostname_queues_dict : ~OwnsQueue(h) => h \notin DOMAIN processes_dict

\* C18 as amended: the worker registry has an entry only for a hostname of the
\* hostname registry; the entry lists at least one worker exactly when a
\* dedicated worker was created for that hostname, and a hostname that reuses
\* a queue has an entry that is the empty list.
C18_EmptyEntryForReusedQueue ==
    /\ \A h \in DOMAIN processes_dict :
          /\ h \in DOMAIN hostname_queues_dict
          /\ processes_dict[h] # << >> <=> OwnsQueue(h)
          /\ \A k \in 1 .. Len(processes_dict[h]) :
                /\ processes_dict[h][k] \in DOMAIN workers
                /\ workers[processes_dict[h][k]].hq = h
    /\ \A h \in DOMAIN hostname_queues_dict :
          ~OwnsQueue(h) => h \in DOMAIN processes_dict /\ processes_dict[h] = << >>

\* One hostname has a dedicated worker and another one reuses its queue.
C18_Witness ==
    \E h, g \in DOMAIN hostname_queues_dict :
        /\ OwnsQueue(h)
        /\ {h, g} \subseteq DOMAIN processes_dict
        /\ Len(processes_dict[h]) = 1
        /\ hostname_queues_dict[g] = h
        /\ g # h
        /\ processes_dict[g] = << >>

\* C19: a submit that fails because process.start() raised leaves the hostname
\* registry, the worker registry and the queued-task counter as they were, and
\* the two registries have the same hostnames as keys afterwards.
C19_FailedSubmitChangesNothing ==
    [][raised' = "ProvisioningFailure" =>
          /\ hostname_queues_dict' = hostname_queues_dict
          /\ processes_dict' = processes_dict
          /\ queued_tasks_nb' = queued_tasks_nb
          /\ DOMAIN hostname_queues_dict' = DOMAIN processes_dict']_vars

\* Every queue some hostname maps to has a worker bound to it.
MappedQueuesServed == \A q \in Range(hostname_queues_dict) : BoundTo(q) # {}

\* C20: once a submit was accepted, every queue some hostname maps to has a
\* worker bound to it; the queue a hostname maps to never changes; a hostname
\* that reuses a queue never gets a worker of its own.
C20_MappedQueuesAlwaysServed ==
    [][/\ queued_tasks_nb' >= 1 => MappedQueuesServed'
       /\ \A h \in DOMAIN hostname_queues_dict :
             /\ h \in DOMAIN hostname_queues_dict'
             /\ hostname_queues_dict'[h] = hostname_queues_dict[h]
       /\ \A h \in DOMAIN hostname_queues_dict \cap DOMAIN processes_dict :
             ~OwnsQueue(h) => h \in DOMAIN processes_dict' /\ processes_dict'[h] = << >>]_vars

\* The consequence C20 draws, for the pools in which no process.start() fails:
\* an aggressive task put on a reused queue is taken by a worker.
ReusedQueueTaskConsumed ==
    \A t \in 1 .. MaxTasks :
        (/\ queued_tasks_nb >= t
         /\ submitted[t].cmd \in get_aggressive_commands
         /\ ~OwnsQueue(submitted[t].host)) ~> (taken[t] = 1)

====
